---- MODULE Spec2Model ----
(***************************************************************************)
(* Model of the Liga Kampung score card (streamlit_app.py): one SQLite    *)
(* file with the table score_card, shared by several browser sessions.    *)
(* Every session repeatedly runs the script (connect_db, initialize_data  *)
(* when the file was just created, load_data, data_editor, commit button) *)
(* and may press "Commit changes", which calls update_data with the       *)
(* DataFrame and the staged changes of its last script run.               *)
(*                                                                         *)
(* SQLite semantics used (checked against sqlite 3.40 / python sqlite3):   *)
(*  - sqlite3.connect creates the file when it does not exist;             *)
(*  - CREATE TABLE runs outside a transaction and is visible at once;      *)
(*  - the INSERT/UPDATE/DELETE statements of one call run in one           *)
(*    transaction that holds the write lock until conn.commit(), so the    *)
(*    writes of a call become visible atomically;                          *)
(*  - UPDATE/DELETE ... WHERE id = x with no such row changes nothing and  *)
(*    raises nothing;                                                      *)
(*  - id INTEGER PRIMARY KEY AUTOINCREMENT: an INSERT whose id is NULL     *)
(*    gets max(sqlite_sequence.seq, largest rowid) + 1;                    *)
(*  - a column of INTEGER affinity stores 3.0 as 3 and NaN as NULL.        *)
(***************************************************************************)
EXTENDS Integers, Sequences, FiniteSets, TLC

\* ---------------------------------------------------------------- bounds
MaxStaged  == 2      \* batches staged in the grid over a behaviour
MaxPos     == 1      \* the last MaxPos grid positions are edited or deleted
MaxEdits   == 1      \* entries of edited_rows in one batch
MaxAdded   == 1      \* entries of added_rows in one batch
MaxDeleted == 1      \* entries of deleted_rows in one batch

Sessions == {"s1", "s2"}

\* ----------------------------------------------------------------- cells
\* A cell is a record [kind, v]; numeric cells carry an integer, text cells
\* a string, so that cells of one column are always comparable.
TextFields == {"contestant_name", "description"}
NumFields  == {"contestant_id", "total_tops", "total_penalty"}
Fields     == TextFields \cup NumFields

IntCell(n)   == [kind |-> "int",   v |-> n]
FloatCell(n) == [kind |-> "float", v |-> n]
TextCell(t)  == [kind |-> "text",  v |-> t]
NaN      == [kind |-> "nan",   v |-> 0]
Null(f)  == IF f \in TextFields THEN [kind |-> "null", v |-> ""]
                                ELSE [kind |-> "null", v |-> 0]

\* What SQLite stores when the cell c is bound to column f.
Affinity(f, c) ==
    IF f \in NumFields
    THEN CASE c.kind = "float" -> IntCell(c.v)
           [] c.kind = "nan"   -> Null(f)
           [] OTHER            -> c
    ELSE c

\* ------------------------------------------------------------- seed data
SeedNames == << "Azrai", "Fais", "Avish", "Clarence", "Shah", "Shakel", "Shaa",
                "Joe", "Meng", "Jien", "Paan", "Fatin", "Perong", "Oliver" >>
SeedCount == 14
FirstContestantId == 2501

SeedValues(k) ==
    [contestant_name |-> TextCell(SeedNames[k]),
     contestant_id   |-> IntCell(FirstContestantId + k - 1),
     total_tops      |-> IntCell(0),
     total_penalty   |-> IntCell(0),
     description     |-> TextCell("")]

\* ------------------------------------------------------------ the store
\* db = [exists: the table exists, rows: set of row records, seq: the
\* sqlite_sequence entry of score_card].
EmptyDb == [exists |-> FALSE, rows |-> {}, seq |-> 0]

Ids(rows) == {r.id : r \in rows}

MaxOf(S) == IF S = {} THEN 0 ELSE CHOOSE m \in S : \A x \in S : x <= m

\* Mutant: id INTEGER PRIMARY KEY without AUTOINCREMENT (largest rowid + 1).
AllocId_MaxRowid(db) == MaxOf(Ids(db.rows)) + 1

\* The id AUTOINCREMENT gives to a row inserted with id NULL.
AllocId(db) == MaxOf(Ids(db.rows) \cup {db.seq}) + 1

MkRow(id, vals) ==
    [id |-> id,
     contestant_name |-> vals.contestant_name,
     contestant_id   |-> vals.contestant_id,
     total_tops      |-> vals.total_tops,
     total_penalty   |-> vals.total_penalty,
     description     |-> vals.description]

\* INSERT of one row without id.
InsertRow(db, vals) ==
    LET id == AllocId(db)
    IN [db EXCEPT !.rows = @ \cup {MkRow(id, vals)}, !.seq = id]

\* initialize_data, first statement: CREATE TABLE IF NOT EXISTS.
CreateTableIfNotExists(db) == [db EXCEPT !.exists = TRUE]

RECURSIVE InsertSeedFrom(_, _)
InsertSeedFrom(db, k) ==
    IF k > SeedCount THEN db
    ELSE InsertSeedFrom(InsertRow(db, SeedValues(k)), k + 1)

\* initialize_data, second statement and commit: the 14 seed rows.
InsertSeed(db) == InsertSeedFrom(db, 1)

\* ------------------------------------------------------------ load_data
RECURSIVE SortById(_)
SortById(rows) ==
    IF rows = {} THEN << >>
    ELSE LET m == CHOOSE r \in rows : \A q \in rows : r.id <= q.id
         IN << m >> \o SortById(rows \ {m})

\* pandas turns a numeric column holding both numbers and None into a
\* float64 column: the numbers become floats, None becomes NaN.
IsMixed(rows, f) ==
    /\ \E r \in rows : r[f].kind = "null"
    /\ \E r \in rows : r[f].kind # "null"

MixedColumns(rows) == {f \in NumFields : IsMixed(rows, f)}

FrameCell(mixed, f, c) ==
    IF f \in mixed
    THEN IF c.kind = "null" THEN NaN ELSE FloatCell(c.v)
    ELSE c

FrameRow(mixed, r) ==
    [id |-> r.id,
     contestant_name |-> FrameCell(mixed, "contestant_name", r.contestant_name),
     contestant_id   |-> FrameCell(mixed, "contestant_id", r.contestant_id),
     total_tops      |-> FrameCell(mixed, "total_tops", r.total_tops),
     total_penalty   |-> FrameCell(mixed, "total_penalty", r.total_penalty),
     description     |-> FrameCell(mixed, "description", r.description)]

NoFrame == [none |-> TRUE, rows |-> << >>]

\* pd.DataFrame(data, columns=[...]) of the fetched rows.
ToFrame(sorted, mixed) ==
    [none |-> FALSE,
     rows |-> [i \in 1..Len(sorted) |-> FrameRow(mixed, sorted[i])]]

\* SELECT * FROM score_card (rowid order) into a DataFrame; None when the
\* query raises because the table is missing.
load_data(db) ==
    IF ~db.exists THEN NoFrame
    ELSE ToFrame(SortById(db.rows), MixedColumns(db.rows))

\* df.iloc[i] / df.loc[i, ...]: positions count from 0.
Iloc(df, i) == df.rows[i + 1]

NumRows(df) == Len(df.rows)

\* ---------------------------------------------------------- update_data
\* changes = [edited_rows: position -> partial record,
\*            added_rows: sequence of partial records,
\*            deleted_rows: set of positions]  (a list of distinct
\* positions in the program; the DELETEs of distinct ids commute).
NoEdits == [p \in {} |-> 0]

NoChanges == [edited_rows |-> NoEdits, added_rows |-> << >>, deleted_rows |-> {}]

\* has_uncommitted_changes
HasChanges(ch) ==
    \/ DOMAIN ch.edited_rows # {}
    \/ Len(ch.added_rows) > 0
    \/ ch.deleted_rows # {}

\* Mutant: the delta is never merged into the row.
Merged_NoOverlay(df, i, delta) == Iloc(df, i)

\* row_dict = df.iloc[i].to_dict(); row_dict.update(delta)
Merged(df, i, delta) ==
    LET row == Iloc(df, i)
    IN [f \in DOMAIN row |-> IF f \in DOMAIN delta THEN delta[f] ELSE row[f]]

\* The row an UPDATE ... SET <five columns> WHERE id = :id leaves.
Stored(row_dict) ==
    [id |-> row_dict.id,
     contestant_name |-> Affinity("contestant_name", row_dict.contestant_name),
     contestant_id   |-> Affinity("contestant_id", row_dict.contestant_id),
     total_tops      |-> Affinity("total_tops", row_dict.total_tops),
     total_penalty   |-> Affinity("total_penalty", row_dict.total_penalty),
     description     |-> Affinity("description", row_dict.description)]

\* Mutant: INSERT OR REPLACE instead of UPDATE (a missing row is created).
UpdateRow_Upsert(db, row_dict) ==
    [db EXCEPT !.rows = {r \in @ : r.id # row_dict.id} \cup {Stored(row_dict)}]

\* Mutant: the SET clause forgets the two text columns.
UpdateRow_KeepText(db, row_dict) ==
    [db EXCEPT !.rows =
        {IF r.id = row_dict.id
         THEN [Stored(row_dict) EXCEPT !.contestant_name = r.contestant_name,
                                       !.description = r.description]
         ELSE r : r \in @}]

\* One UPDATE: every row with that id (at most one) gets the five values.
UpdateRow(db, row_dict) ==
    [db EXCEPT !.rows = {IF r.id = row_dict.id THEN Stored(row_dict) ELSE r
                         : r \in @}]

RECURSIVE UpdateAll(_, _, _, _)
UpdateAll(db, df, deltas, todo) ==
    IF todo = {} THEN db
    ELSE LET i == CHOOSE p \in todo : \A q \in todo : p <= q
         IN UpdateAll(UpdateRow(db, Merged(df, i, deltas[i])), df, deltas,
                      todo \ {i})

\* if changes["edited_rows"]: ... executemany(UPDATE ...)
PhaseUpdate(db, df, ch) ==
    UpdateAll(db, df, ch.edited_rows, DOMAIN ch.edited_rows)

\* Mutant: an absent field is bound as 0 / "" instead of NULL.
Defaulted_Zero(partial) ==
    [f \in Fields |-> IF f \in DOMAIN partial THEN Affinity(f, partial[f])
                      ELSE IF f \in TextFields THEN TextCell("") ELSE IntCell(0)]

\* defaultdict(lambda: None, row): an absent field is bound as NULL.
Defaulted(partial) ==
    [f \in Fields |-> IF f \in DOMAIN partial THEN Affinity(f, partial[f])
                                               ELSE Null(f)]

RECURSIVE InsertAll(_, _, _)
InsertAll(db, added, k) ==
    IF k > Len(added) THEN db
    ELSE InsertAll(InsertRow(db, Defaulted(added[k])), added, k + 1)

\* if changes["added_rows"]: ... executemany(INSERT ...)
PhaseInsert(db, df, ch) == InsertAll(db, ch.added_rows, 1)

\* Mutant: the delete takes the row at that position of the live table.
PhaseDelete_ByPosition(db, df, ch) ==
    LET live == SortById(db.rows)
        gone == {live[i + 1].id : i \in {j \in ch.deleted_rows : j < Len(live)}}
    IN [db EXCEPT !.rows = {r \in @ : r.id \notin gone}]

\* if changes["deleted_rows"]: ... executemany(DELETE ... WHERE id = :id)
PhaseDelete(db, df, ch) ==
    LET gone == {Iloc(df, i).id : i \in ch.deleted_rows}
    IN [db EXCEPT !.rows = {r \in @ : r.id \notin gone}]

RunPhase(name, db, df, ch) ==
    CASE name = "update" -> PhaseUpdate(db, df, ch)
      [] name = "insert" -> PhaseInsert(db, df, ch)
      [] name = "delete" -> PhaseDelete(db, df, ch)

RECURSIVE RunPhases(_, _, _, _)
RunPhases(order, db, df, ch) ==
    IF order = << >> THEN db
    ELSE RunPhases(Tail(order), RunPhase(Head(order), db, df, ch), df, ch)

CodeOrder == << "update", "insert", "delete" >>

\* A statement raises sqlite3.OperationalError (no such table) when the
\* table is missing; the transaction is then never committed.
Raises(db, ch) == ~db.exists /\ HasChanges(ch)

\* How the call ends: it returns, or the exception leaves the callback.
Outcome(db, ch) == IF Raises(db, ch) THEN "OperationalError" ELSE "ok"

\* update_data(conn, df, changes): the store after the call.
update_data(db, df, ch) ==
    IF Raises(db, ch) THEN db ELSE RunPhases(CodeOrder, db, df, ch)

\* ------------------------------------------------- what the user stages
\* Cells the user types into the grid.
EditPartials ==
    { [total_tops |-> IntCell(4)],
      [contestant_name |-> TextCell("Ed"), total_penalty |-> Null("total_penalty")] }

\* Rows the user appends; id is a disabled column and is never present.
InsertPartials ==
    { [contestant_name |-> TextCell("New")],
      [f \in {} |-> 0] }

Positions(df) ==
    {p \in 0..(NumRows(df) - 1) : p >= NumRows(df) - MaxPos}

EditChoices(df) ==
    UNION {[P -> EditPartials] :
             P \in {Q \in SUBSET Positions(df) : Cardinality(Q) <= MaxEdits}}

AddedChoices == UNION {[1..n -> InsertPartials] : n \in 0..MaxAdded}

DeleteChoices(df) ==
    {Q \in SUBSET Positions(df) : Cardinality(Q) <= MaxDeleted}

\* ------------------------------------------------------------ the state
VARIABLES
    fileExists,         \* scorecard.db exists on disk
    db,                 \* the committed content of the file
    pc,                 \* per session: where its script run stands
    db_already_exists,  \* per session: connect_db's local of that name
    df,                 \* per session: the DataFrame of its last load_data
    changes,            \* per session: st.session_state.score_card
    staged,             \* number of batches staged so far
    last,               \* history: the write the last step made, if any
    issued,             \* history: every id a row has ever carried
    seedings            \* history: how often initialize_data inserted the seed

vars == << fileExists, db, pc, db_already_exists, df, changes, staged, last,
           issued, seedings >>

NoWrite == [kind |-> "none", s |-> "", pre |-> EmptyDb, df |-> NoFrame,
            ch |-> NoChanges, outcome |-> "", issued |-> {}]

Init ==
    /\ fileExists = FALSE
    /\ db = EmptyDb
    /\ pc = [s \in Sessions |-> "start"]
    /\ db_already_exists = [s \in Sessions |-> FALSE]
    /\ df = [s \in Sessions |-> NoFrame]
    /\ changes = [s \in Sessions |-> NoChanges]
    /\ staged = 0
    /\ last = NoWrite
    /\ issued = {}
    /\ seedings = 0

\* connect_db, when the file is not there: db_already_exists =
\* DB_FILENAME.exists() is False.
CheckDbExists(s) ==
    /\ pc[s] = "start"
    /\ ~fileExists
    /\ db_already_exists' = [db_already_exists EXCEPT ![s] = fileExists]
    /\ pc' = [pc EXCEPT ![s] = "connect"]
    /\ last' = NoWrite
    /\ UNCHANGED << fileExists, db, df, changes, staged, issued, seedings >>

\* connect_db: sqlite3.connect(DB_FILENAME) creates the file; then
\* `if db_was_just_created`.
Connect(s) ==
    /\ pc[s] = "connect"
    /\ fileExists' = TRUE
    /\ pc' = [pc EXCEPT ![s] = IF ~db_already_exists[s] THEN "create" ELSE "load"]
    /\ last' = NoWrite
    /\ UNCHANGED << db, db_already_exists, df, changes, staged, issued, seedings >>

\* initialize_data: CREATE TABLE IF NOT EXISTS score_card
CreateTable(s) ==
    /\ pc[s] = "create"
    /\ db' = CreateTableIfNotExists(db)
    /\ pc' = [pc EXCEPT ![s] = "seed"]
    /\ last' = NoWrite
    /\ UNCHANGED << fileExists, db_already_exists, df, changes, staged, issued, seedings >>

\* initialize_data: INSERT of the seed rows; conn.commit()
SeedTable(s) ==
    /\ pc[s] = "seed"
    /\ db' = InsertSeed(db)
    /\ pc' = [pc EXCEPT ![s] = "load"]
    /\ last' = [NoWrite EXCEPT !.kind = "seed", !.s = s, !.pre = db,
                               !.issued = issued]
    /\ issued' = issued \cup Ids(db'.rows)
    /\ seedings' = seedings + 1
    /\ UNCHANGED << fileExists, db_already_exists, df, changes, staged >>

\* df = load_data(conn); st.data_editor(df, key="score_card"): the editor
\* keeps its staged changes while it is given the same data and starts
\* empty when the data differs.
Loaded(s) ==
    /\ df' = [df EXCEPT ![s] = load_data(db)]
    /\ changes' = [changes EXCEPT ![s] = IF df'[s] = df[s] THEN @ ELSE NoChanges]
    /\ pc' = [pc EXCEPT ![s] = "ready"]

\* The rest of the script run that created the file.
LoadData(s) ==
    /\ pc[s] = "load"
    /\ Loaded(s)
    /\ last' = NoWrite
    /\ UNCHANGED << fileExists, db, db_already_exists, staged, issued, seedings >>

\* A script run that finds the file: connect_db returns
\* db_was_just_created = False, initialize_data is skipped, and load_data
\* is the only statement that reads or writes anything shared.
RunScript(s) ==
    /\ pc[s] = "start"
    /\ fileExists
    /\ db_already_exists' = [db_already_exists EXCEPT ![s] = fileExists]
    /\ Loaded(s)
    /\ last' = NoWrite
    /\ UNCHANGED << fileExists, db, staged, issued, seedings >>

\* The user edits the grid: the widget state changes and the script reruns.
EditGrid(s) ==
    /\ pc[s] = "ready"
    /\ staged < MaxStaged
    /\ staged' = staged + 1
    /\ \E e \in EditChoices(df[s]), a \in AddedChoices, d \in DeleteChoices(df[s]) :
          LET ch == [edited_rows |-> e, added_rows |-> a, deleted_rows |-> d]
          IN /\ HasChanges(ch)
             /\ changes' = [changes EXCEPT ![s] = ch]
    /\ pc' = [pc EXCEPT ![s] = "start"]
    /\ last' = NoWrite
    /\ UNCHANGED << fileExists, db, db_already_exists, df, issued, seedings >>

\* Any other widget event (the number input) reruns the script.
Rerun(s) ==
    /\ pc[s] = "ready"
    /\ pc' = [pc EXCEPT ![s] = "start"]
    /\ last' = NoWrite
    /\ UNCHANGED << fileExists, db, db_already_exists, df, changes, staged,
                    issued, seedings >>

\* "Commit changes" pressed: update_data(conn, df, st.session_state.score_card)
\* runs with the arguments of the last script run, then the script reruns.
CommitChanges(s) ==
    /\ pc[s] = "ready"
    /\ HasChanges(changes[s])
    /\ db' = update_data(db, df[s], changes[s])
    /\ pc' = [pc EXCEPT ![s] = "start"]
    /\ last' = [kind |-> "commit", s |-> s, pre |-> db, df |-> df[s],
                ch |-> changes[s], outcome |-> Outcome(db, changes[s]),
                issued |-> issued]
    /\ issued' = issued \cup Ids(db'.rows)
    /\ UNCHANGED << fileExists, db_already_exists, df, changes, staged, seedings >>

Next ==
    \E s \in Sessions :
        \/ CheckDbExists(s)
        \/ Connect(s)
        \/ CreateTable(s)
        \/ SeedTable(s)
        \/ LoadData(s)
        \/ RunScript(s)
        \/ EditGrid(s)
        \/ Rerun(s)
        \/ CommitChanges(s)

Spec == Init /\ [][Next]_vars

TypeOK ==
    /\ fileExists \in BOOLEAN
    /\ db.exists \in BOOLEAN
    /\ db.seq \in Nat
    /\ \A s \in Sessions :
          pc[s] \in {"start", "connect", "create", "seed", "load", "ready"}
    /\ staged \in 0..MaxStaged

\* ===================================================== checked properties
Committed == last.kind = "commit" /\ last.outcome = "ok"

RowOf(rows, id) == CHOOSE r \in rows : r.id = id

\* The id a grid position of the committed batch stands for.
TargetId(p) == Iloc(last.df, p).id

EditTargets   == {TargetId(p) : p \in DOMAIN last.ch.edited_rows}
DeleteTargets == {TargetId(p) : p \in last.ch.deleted_rows}

\* C1: seeding happens exactly once: bootstrap inserts the seed rows at
\* most once over the life of the database file, so no seed row is ever
\* added by a second bootstrap.
C1_SeededExactlyOnce == seedings <= 1

\* A batch with an operation that is invalid or fails: a statement raises,
\* or an edit or delete names a row that is no longer in the table.
BatchInvalid ==
    \/ last.outcome # "ok"
    \/ (EditTargets \cup DeleteTargets) \ Ids(last.pre.rows) # {}

\* C2: reconciliation is all-or-nothing: after a commit whose batch holds an
\* invalid or failing operation the table equals the table before it.
C2_AllOrNothing ==
    (last.kind = "commit" /\ BatchInvalid) => db.rows = last.pre.rows

\* C3 (as claimed): after a commit, every edited row that is still in the
\* table has the partial's fields set to the partial's values and every
\* other field as it was in the table before the commit.
C3_OtherFieldsUntouched ==
    Committed =>
      \A p \in DOMAIN last.ch.edited_rows :
        (TargetId(p) \in Ids(last.pre.rows) /\ TargetId(p) \in Ids(db.rows)) =>
          LET before == RowOf(last.pre.rows, TargetId(p))
              after  == RowOf(db.rows, TargetId(p))
              delta  == last.ch.edited_rows[p]
          IN \A f \in Fields :
               after[f] = IF f \in DOMAIN delta THEN delta[f] ELSE before[f]

\* The grid cell `shown` displays the stored cell (NULL shows as None or
\* NaN, an integer as itself or as the equal float).
ShowsAs(stored, shown) ==
    /\ stored.kind = "null" <=> shown.kind \in {"null", "nan"}
    /\ stored.v = shown.v

\* C3 (amended): after a commit, every edited row that is still in the
\* table has the partial's fields set to the partial's values, and every
\* other field whose stored value is the one the snapshot showed is left
\* as it was; the id stays the snapshot's.
C3_EditOverlay ==
    Committed =>
      \A p \in DOMAIN last.ch.edited_rows :
        (TargetId(p) \in Ids(last.pre.rows) /\ TargetId(p) \in Ids(db.rows)) =>
          LET before == RowOf(last.pre.rows, TargetId(p))
              after  == RowOf(db.rows, TargetId(p))
              shown  == Iloc(last.df, p)
              delta  == last.ch.edited_rows[p]
          IN /\ after.id = shown.id
             /\ \A f \in Fields :
                  IF f \in DOMAIN delta
                  THEN after[f] = delta[f]
                  ELSE ShowsAs(before[f], shown[f]) => after[f] = before[f]

\* An edit has been committed and changed a row that is still there.
C3_Witness ==
    /\ Committed
    /\ \E p \in DOMAIN last.ch.edited_rows :
         /\ TargetId(p) \in Ids(last.pre.rows)
         /\ TargetId(p) \in Ids(db.rows)
         /\ RowOf(db.rows, TargetId(p)) # RowOf(last.pre.rows, TargetId(p))

\* C4: insert defaulting: after a commit the rows whose id the table did not
\* hold before are, in id order, exactly the batch's inserts, one row per
\* partial record, each with the partial's fields as given and every absent
\* field NULL.
C4_InsertDefaulting ==
    Committed =>
      LET added == last.ch.added_rows
          fresh == SortById({r \in db.rows : r.id \notin Ids(last.pre.rows)})
      IN /\ Len(fresh) = Len(added)
         /\ \A k \in 1..Len(added) : \A f \in Fields :
              fresh[k][f] = IF f \in DOMAIN added[k] THEN added[k][f] ELSE Null(f)

\* A commit has inserted a partial record next to an edit or a delete.
C4_Witness ==
    /\ Committed
    /\ Len(last.ch.added_rows) > 0
    /\ DOMAIN last.ch.edited_rows \cup last.ch.deleted_rows # {}
    /\ Cardinality(db.rows) > 0

\* C5: delete by identity: the ids a commit removes from the table are
\* exactly the ids snapshot[p].id of the batch's delete positions that the
\* table held, whatever the live table looks like.
C5_DeleteByIdentity ==
    Committed =>
      Ids(last.pre.rows) \ Ids(db.rows) = DeleteTargets \cap Ids(last.pre.rows)

\* A commit has deleted a row from a table that no longer has the number
\* of rows its snapshot has.
C5_Witness ==
    /\ Committed
    /\ DeleteTargets \cap Ids(last.pre.rows) # {}
    /\ Cardinality(last.pre.rows) # NumRows(last.df)

\* C6: a commit whose batch edits or deletes a row that is gone ends in a
\* stale-reference error.
C6_StaleReported ==
    (last.kind = "commit" /\ (EditTargets \cup DeleteTargets) \ Ids(last.pre.rows) # {})
        => last.outcome = "StaleReferenceError"

\* C7: once a script run is past connect and bootstrap, its load_data has
\* found the table.
C7_TableEnsured ==
    \A s \in Sessions : pc[s] = "ready" => ~df[s].none

\* C8: ids are unique and never reassigned: no two rows share an id, an id
\* a write adds to the table was never carried by any row before, and an id
\* leaves the table only through a delete of the batch.
C8_IdsNeverReused ==
    /\ \A r, q \in db.rows : r.id = q.id => r = q
    /\ last.kind \in {"seed", "commit"} =>
          (Ids(db.rows) \ Ids(last.pre.rows)) \cap last.issued = {}
    /\ last.kind = "seed" => Ids(last.pre.rows) \subseteq Ids(db.rows)
    /\ last.kind = "commit" =>
          Ids(last.pre.rows) \ Ids(db.rows) \subseteq DeleteTargets

\* A commit has inserted a row after the highest id ever issued was deleted.
C8_Witness ==
    /\ Committed
    /\ Ids(db.rows) \ Ids(last.pre.rows) # {}
    /\ last.issued # {}
    /\ MaxOf(last.issued) \notin Ids(last.pre.rows)

PhaseOrders ==
    { << "update", "insert", "delete" >>, << "update", "delete", "insert" >>,
      << "insert", "update", "delete" >>, << "insert", "delete", "update" >>,
      << "delete", "update", "insert" >>, << "delete", "insert", "update" >> }

C10_LastWriterWins ==
    Committed =>
      \A p \in DOMAIN last.ch.edited_rows :
        (TargetId(p) \in Ids(last.pre.rows) /\ TargetId(p) \notin DeleteTargets) =>
          \E r \in db.rows :
            /\ r.id = TargetId(p)
            /\ \A f \in Fields :
                 r[f] = Affinity(f, IF f \in DOMAIN last.ch.edited_rows[p]
                                    THEN last.ch.edited_rows[p][f]
                                    ELSE Iloc(last.df, p)[f])

\* A commit has overwritten, with the snapshot's value, a field its partial
\* does not name and another session had changed since the snapshot.
C10_Witness ==
    /\ Committed
    /\ \E p \in DOMAIN last.ch.edited_rows :
         /\ TargetId(p) \in Ids(last.pre.rows)
         /\ TargetId(p) \in Ids(db.rows)
         /\ \E f \in Fields \ DOMAIN last.ch.edited_rows[p] :
              /\ ~ShowsAs(RowOf(last.pre.rows, TargetId(p))[f], Iloc(last.df, p)[f])
              /\ ShowsAs(RowOf(db.rows, TargetId(p))[f], Iloc(last.df, p)[f])

====
